---- MODULE Spec2Model ----
(***************************************************************************)
(* Demo generator (src/Code.js): the provisioning state machine and the   *)
(* script generation pipeline.                                             *)
(*                                                                         *)
(* src/Code.js holds three revisions of the server logic, one after the   *)
(* other: revision 1 (lines 1-629), revision 2 (lines 631-1108) and        *)
(* revision 3 (lines 1109-1542).  The variable rev selects the revision    *)
(* a behaviour runs; it never changes inside a behaviour.                  *)
(*                                                                         *)
(* Every public operation is one action: the whole handler, with every    *)
(* remote call and every store access it makes.  The outcome of a remote  *)
(* call is an input of the action.  The directory is faithful: when it    *)
(* answers, the answer is decided by the accounts it holds.                *)
(***************************************************************************)
EXTENDS Integers, Sequences, FiniteSets, TLC

\* ------------------------------------------------------- characters, emails

UpperChars == <<"A","B","C","D","E","F","G","H","I","J","K","L","M",
                "N","O","P","Q","R","S","T","U","V","W","X","Y","Z">>

LowerChars == <<"a","b","c","d","e","f","g","h","i","j","k","l","m",
                "n","o","p","q","r","s","t","u","v","w","x","y","z">>

DigitChars == <<"0","1","2","3","4","5","6","7","8","9">>

Range(s) == {s[i] : i \in 1..Len(s)}

\* Requesters, as Session.getActiveUser().getEmail() returns them.
JaneEmail == <<"j","a","n","e",".","d","o","e","@",
               "e","x","a","m","p","l","e",".","c","o","m">>

MawiEmail == <<"m","a","w","i","@","g","o","o","g","l","e",".","c","o","m">>

\* The platform returns an empty string when it cannot identify the user.
EmptyEmail == <<>>

\* a requester email without "@"
NoAtEmail == <<"b","o","b">>

\* another requester with the letters and digits of jane.doe@example.com
\* before the "@"
JDoeEmail == <<"J","a","n","e","D","o","e","@","x",".","i","o">>

Requesters == {JaneEmail, MawiEmail, NoAtEmail, JDoeEmail, EmptyEmail}

\* getPrimaryDomain() / PRIMARY_DOMAIN_CONFIG
PrimaryDomain == "cymbal.se"

\* String.prototype.toLowerCase on one character
toLowerCase(c) ==
  IF \E i \in 1..Len(UpperChars) : UpperChars[i] = c
  THEN LowerChars[CHOOSE i \in 1..Len(UpperChars) : UpperChars[i] = c]
  ELSE c

\* s.split('@')[0]: the text before the first "@", the whole text when
\* there is none
RECURSIVE splitAtFirst(_)
splitAtFirst(s) ==
  IF s = <<>> THEN <<>>
  ELSE IF Head(s) = "@" THEN <<>>
  ELSE <<Head(s)>> \o splitAtFirst(Tail(s))

\* .toLowerCase() on a string
RECURSIVE lowerAll(_)
lowerAll(s) ==
  IF s = <<>> THEN <<>> ELSE <<toLowerCase(Head(s))>> \o lowerAll(Tail(s))

\* .replace(/[^a-z0-9]/g, '')
RECURSIVE replaceNonAlnum(_)
replaceNonAlnum(s) ==
  IF s = <<>> THEN <<>>
  ELSE IF Head(s) \in Range(LowerChars) \cup Range(DigitChars)
       THEN <<Head(s)>> \o replaceNonAlnum(Tail(s))
       ELSE replaceNonAlnum(Tail(s))

\* requestingUserEmail.split('@')[0].toLowerCase().replace(/[^a-z0-9]/g, '')
requestingUserPrefix(email) == replaceNonAlnum(lowerAll(splitAtFirst(email)))

\* decimal digits of a natural number, as string concatenation builds them
RECURSIVE decString(_)
decString(n) ==
  IF n < 10 THEN <<DigitChars[n + 1]>>
  ELSE decString(n \div 10) \o <<DigitChars[(n % 10) + 1]>>

\* Math.floor(Math.random() * 1000): the two ends of its range
RandomNumbers == {0, 999}

\* `${requestingUserPrefix}@${domain}`
Address(prefix) == [local |-> prefix, domain |-> PrimaryDomain]

\* the value of an email that is not there (undefined, null or "")
NoAddr == [local |-> <<>>, domain |-> ""]

\* initialPrimaryEmail without the removal of the characters outside a-z0-9
initialPrimaryEmail_KeepDots(email) == Address(lowerAll(splitAtFirst(email)))

\* primaryEmail of getInitialAppState (revision 1 only)
initialPrimaryEmail(email) == Address(requestingUserPrefix(email))

\* The prefixes createDemoUserInRoot can derive for a requester: revision 1
\* derives one; revisions 2 and 3 replace the prefix of mawi@google.com by
\* "mawi" followed by a random number.
createPrefixes(r, email) ==
  IF r \in {2, 3} /\ email = MawiEmail
  THEN {<<"m","a","w","i">> \o decString(n) : n \in RandomNumbers}
  ELSE {requestingUserPrefix(email)}

\* ------------------------------------------------------------ JSON values

\* A field that is not there (undefined) and a field that is null.
Absent == "<absent>"

Null == "<null>"

\* generateRandomPassword_(14): the generated passwords
Passwords == {"pw1", "pw2"}

\* nameInfo.firstName / nameInfo.lastName supplied by the client
FirstNames == {"Ann", "Bo"}

LastNames == {"Lee"}

\* option values: <<>> is null, <<x>> is the object x
None == <<>>

Some(x) == <<x>>

\* JavaScript truthiness of a password field value
IsPassword(p) == p \in Passwords


\* ------------------------------------------------- generated script texts

\* The text of the model's first candidate.  form says what the text is:
\* "json" is raw JSON, "fenced" is JSON wrapped in markdown code fences,
\* "garbage" is any other text that is not JSON.  kind is the JSON value at
\* the top: an object, the literal null or a number.  title and steps are
\* the object's fields: Absent, Null, "" (empty string), a non-empty string,
\* "arr0" (empty array), "arr1" (array of one step), "obj" (an object).
Text(form, kind, title, steps) ==
  [form |-> form, kind |-> kind, title |-> title, steps |-> steps]

MinimalText == Text("json", "object", "T", "arr0")

FullText == Text("json", "object", "U", "arr1")

NoStepsText == Text("json", "object", "T", Absent)

StepsNotArrayText == Text("json", "object", "T", "str")

EmptyTitleText == Text("json", "object", "", "arr1")

NoTitleText == Text("json", "object", Absent, "arr1")

FencedText == Text("fenced", "object", "U", "arr1")

GarbageText == Text("garbage", "object", Absent, Absent)

NullText == Text("json", "null", Absent, Absent)

NoText == Text("none", "null", Absent, Absent)

AiTexts == {MinimalText, FullText, NoStepsText, StepsNotArrayText,
            EmptyTitleText, NoTitleText, FencedText, GarbageText, NullText}

\* JSON.parse(text): throws unless the text is raw JSON
JSONparse(text) ==
  IF text.form = "json"
  THEN [ok |-> TRUE,
        value |-> [kind |-> text.kind, title |-> text.title, steps |-> text.steps]]
  ELSE [ok |-> FALSE,
        value |-> [kind |-> "null", title |-> Absent, steps |-> Absent]]

\* JavaScript truthiness of a field value
Truthy(v) == v \notin {Absent, Null, ""}

\* Array.isArray(v)
isArray(v) == v \in {"arr0", "arr1"}

\* validateScript without the two checks of steps
validateScript_TitleOnly(obj) ==
  IF obj.kind = "null" THEN "throws"
  ELSE IF obj.kind # "object" THEN "invalid"
  ELSE IF ~Truthy(obj.title) THEN "invalid"
  ELSE "valid"

\* !scriptObject.title || !scriptObject.steps || !Array.isArray(scriptObject.steps)
\* A property read on null throws a TypeError ("throws").
validateScript(obj) ==
  IF obj.kind = "null" THEN "throws"
  ELSE IF obj.kind # "object" THEN "invalid"
  ELSE IF ~Truthy(obj.title) \/ ~Truthy(obj.steps) \/ ~isArray(obj.steps)
       THEN "invalid"
       ELSE "valid"

\* the stored form of a script object: JSON.stringify then JSON.parse
Script(obj) == [title |-> obj.title, steps |-> obj.steps]

\* ------------------------------------------------------------- user store

\* A provisioning result object, as it is stored and returned.  (The object
\* createUser stores also carries its success flag, which nothing reads.)
PR(email, password, firstName, lastName) ==
  [email |-> email, password |-> password,
   firstName |-> firstName, lastName |-> lastName]

\* the two properties of one requester: savedProvisionResult, savedDemoScript
EmptySlot == [pr |-> None, script |-> None]

\* A stored text that JSON.parse rejects, in savedProvisionResult and in
\* savedDemoScript.
Unparsable == "<unparsable>"

CorruptPR == PR(NoAddr, Unparsable, Unparsable, Unparsable)

CorruptScript == [title |-> Unparsable, steps |-> Unparsable]

\* JSON.parse(savedProvisionResult) or JSON.parse(savedDemoScript) throws: the
\* texts are parsed only when savedProvisionResult is there
parseFails(slot) ==
  /\ slot.pr # None
  /\ \/ slot.pr[1] = CorruptPR
     \/ slot.script # None /\ slot.script[1] = CorruptScript

\* saveDemoState that keeps a script that is already stored
saveDemoState_KeepOldScript(slot, provisionResult, demoScript) ==
  [pr |-> IF provisionResult # None THEN provisionResult ELSE slot.pr,
   script |-> IF slot.script # None THEN slot.script
              ELSE IF demoScript # None THEN demoScript ELSE slot.script]

\* saveDemoState that writes both properties whatever it is given
saveDemoState_Overwrite(slot, provisionResult, demoScript) ==
  [pr |-> provisionResult, script |-> demoScript]

\* saveDemoState(provisionResult, demoScript): each argument is an option
saveDemoState(slot, provisionResult, demoScript) ==
  [pr |-> IF provisionResult # None THEN provisionResult ELSE slot.pr,
   script |-> IF demoScript # None THEN demoScript ELSE slot.script]

\* How the setProperty calls of one saveDemoState can end: each call succeeds,
\* the call for savedProvisionResult throws, or the call for savedDemoScript
\* throws after the first call wrote.
WriteOutcomes == {"ok", "failsFirst", "failsSecond"}

\* the stored pair after a saveDemoState whose setProperty calls end as w
saveDemoStateWrites(slot, provisionResult, demoScript, w) ==
  CASE w = "ok" -> saveDemoState(slot, provisionResult, demoScript)
    [] w = "failsFirst" -> slot
    [] OTHER -> saveDemoState(slot, provisionResult, None)

\* Whether saveDemoState passes the exception of a setProperty call on to its
\* caller: the function has a try block in revisions 1 and 2, none in 3.
saveThrows(r, w) == r = 3 /\ w # "ok"

\* loadDemoState returning a blank record where nothing is stored
loadDemoState_Default(r, slot) ==
  LET stored == IF slot.pr = None
                THEN PR(Address(<<"x">>), Absent, Absent, Absent)
                ELSE slot.pr[1]
      loadedPR == IF r \in {2, 3} /\ IsPassword(stored.password)
                  THEN [stored EXCEPT !.password = Absent]
                  ELSE stored
  IN Some([provisionResult |-> loadedPR, demoScript |-> slot.script])

\* loadDemoState(): null when no provisioning result is stored.  Revisions 2
\* and 3 delete a truthy password from the loaded object; revision 1 does not.
loadDemoState(r, slot) ==
  IF slot.pr = None \/ parseFails(slot) THEN None
  ELSE LET stored == slot.pr[1]
           loadedPR == IF r \in {2, 3} /\ IsPassword(stored.password)
                       THEN [stored EXCEPT !.password = Absent]
                       ELSE stored
       IN Some([provisionResult |-> loadedPR, demoScript |-> slot.script])

\* clearDemoState without the removal of savedDemoScript
clearDemoState_KeepScript(slot) == [slot EXCEPT !.pr = None]

\* clearDemoState without the removal of savedProvisionResult
clearDemoState_KeepProvisionResult(slot) == [slot EXCEPT !.script = None]

\* clearDemoState()
clearDemoState(slot) == EmptySlot

\* clearDemoScriptOnly(), a store operation of revisions 1 and 2
clearDemoScriptOnly(slot) == [slot EXCEPT !.script = None]

\* clearUserData(), a store operation of revision 3: deleteAllProperties()
clearUserData(slot) == EmptySlot

\* loadDemoState() throws: revision 3 parses outside any try block
loadThrows(r, slot) == r = 3 /\ parseFails(slot)

\* The store after loadDemoState(): the catch block of revisions 1 and 2 calls
\* clearDemoState() when a stored text does not parse.
afterLoad(r, slot) ==
  IF r \in {1, 2} /\ parseFails(slot) THEN clearDemoState(slot) ELSE slot

\* ---------------------------------------------------------- authentication

\* What the token exchange can do: "ok" grants a token, "denied" is
\* service.hasAccess() false, "noconfig" is a missing script property
\* (PRIVATE_KEY, CLIENT_EMAIL, IMPERSONATED_USER).  Revisions 2 and 3 carry the
\* credentials as literals, so nothing can be missing there.
AuthOutcomes(r) == IF r = 1 THEN {"ok", "denied", "noconfig"} ELSE {"ok", "denied"}

\* getAdminAccessToken(): "token", "null" or "throws"
getAdminAccessToken(r, auth) ==
  IF auth = "ok" THEN "token"
  ELSE IF r = 3 THEN "null"
  ELSE "throws"

\* ---------------------------------------------------------------- directory

\* how a remote request can end: the service answers, it answers with a server
\* error, or UrlFetchApp.fetch throws
Nets == {"answer", "error", "exception"}

\* a lookup can also be answered 200 with a body that is not a user record
LookupNets == Nets \cup {"badbody"}

HasAccount(d, addr) == \E a \in d : a.email = addr

AccountOf(d, addr) == CHOOSE a \in d : a.email = addr

\* GET /users/{email}
lookupStatus(d, addr, net) ==
  CASE net = "answer" -> IF HasAccount(d, addr) THEN "200" ELSE "404"
    [] net = "badbody" -> "200"
    [] net = "error" -> "500"
    [] OTHER -> "exception"

\* POST /users
createStatus(d, addr, net) ==
  CASE net = "answer" -> IF HasAccount(d, addr) THEN "409" ELSE "200"
    [] net = "error" -> "500"
    [] OTHER -> "exception"

\* PUT /users/{email}
updateStatus(d, addr, net) ==
  CASE net = "answer" -> IF HasAccount(d, addr) THEN "200" ELSE "404"
    [] net = "error" -> "500"
    [] OTHER -> "exception"

\* DELETE /users/{email}
deleteStatus(d, addr, net) ==
  CASE net = "answer" -> IF HasAccount(d, addr) THEN "204" ELSE "404"
    [] net = "error" -> "500"
    [] OTHER -> "exception"


\* the addresses the operations of revision r can derive for the requesters us
Addresses(r, us) ==
  {Address(p) : p \in UNION {createPrefixes(r, e) : e \in us \ {EmptyEmail}}}

\* an address no requester derives
OtherAddr == Address(<<"o","t","h","e","r">>)

\* The userEmail argument the client passes to deleteDemoAccount: an address
\* derived for one of the requesters, another address, or nothing.
DeleteArgs(r, us) == Addresses(r, us) \cup {OtherAddr, NoAddr}

\* ------------------------------------------------------ password generator

SymbolChars == <<"!","@","#","$","%","^","&","*","(",")">>

\* const all = upper + lower + digits + symbols
AllChars == UpperChars \o LowerChars \o DigitChars \o SymbolChars

\* the length generateRandomPassword_ is called with
PasswordLength == 14

\* chars[Math.floor(Math.random() * chars.length)], the value of
\* Math.random() given in thousandths
pick(chars, random) == chars[((random * Len(chars)) \div 1000) + 1]

\* buildPassword that draws every character from all
buildPassword_AllFree(length, random) ==
  [i \in 1..length |-> pick(AllChars, random[i])]

\* The password before the shuffle: one character of each class, then
\* characters of any class up to the length.
buildPassword(length, random) ==
  <<pick(UpperChars, random[1]), pick(LowerChars, random[2]),
    pick(DigitChars, random[3]), pick(SymbolChars, random[4])>>
  \o [i \in 1..(IF length > 4 THEN length - 4 ELSE 0) |->
        pick(AllChars, random[4 + i])]

\* shuffle that can repeat a character
shuffle_Resampling(password, order) ==
  [i \in 1..Len(password) |-> password[order[(i % 2) + 1]]]

\* password.split('').sort(() => 0.5 - Math.random()).join(''): the order a
\* sort gives under a random comparison is implementation-defined; order[i] is
\* the position the i-th character of the result came from.
shuffle(password, order) == [i \in 1..Len(password) |-> password[order[i]]]

\* generateRandomPassword_(length)
generateRandomPassword_(length, random, order) ==
  shuffle(buildPassword(length, random), order)

\* The values of Math.random() one call consumes: the two ends of the range
\* for the four required characters, and for the others one value repeated or
\* a ramp over the range.
RandomDraws ==
  {r1 \o [i \in 1..(PasswordLength - 4) |-> IF c = 1000 THEN (i * 97) % 1000 ELSE c] :
     r1 \in [1..4 -> {0, 999}], c \in {0, 400, 800, 999, 1000}}

\* The orders of the shuffle: the identity, the reversal, the rotations and
\* the exchanges of two neighbours.
Orders ==
  {[i \in 1..PasswordLength |-> i], [i \in 1..PasswordLength |-> PasswordLength + 1 - i]}
  \cup {[i \in 1..PasswordLength |-> ((i + k - 1) % PasswordLength) + 1] :
          k \in 1..(PasswordLength - 1)}
  \cup {[i \in 1..PasswordLength |-> IF i = k THEN k + 1 ELSE IF i = k + 1 THEN k ELSE i] :
          k \in 1..(PasswordLength - 1)}

\* no call of the generator is under way
NoRun == [random |-> <<>>, order |-> <<>>, built |-> <<>>, password |-> <<>>]

\* no invocation is between its load and its save
NoFlight ==
  [op |-> "none", requester |-> EmptyEmail, savedState |-> None,
   gen |-> Absent, update |-> "none"]

\* ------------------------------------------------------------------- state

\* Who the web application executes as: the user who calls it, or the user
\* who deployed it.  PropertiesService.getUserProperties() is the property
\* store of that user.
Deployments == {"user", "owner"}

\* getNamespacedKey_(key): revision 1 appends the requester's email to the
\* property name (nothing when the email is empty); revisions 2 and 3 use the
\* plain names.  The value is what is appended.
getNamespacedKey(r, email) == IF r = 1 THEN email ELSE EmptyEmail

\* Where the two properties of a requester live: in the requester's own
\* property store, or in the deploying user's store under the names
\* getNamespacedKey gives.
storeOf(d, r, email) == IF d = "user" THEN email ELSE getNamespacedKey(r, email)

VARIABLES
  rev,        \* the revision of src/Code.js that runs
  deploy,     \* who the web application executes as
  users,      \* the requesters that call the application in this behaviour
  faults,     \* what can fail in this behaviour: "remote" services, "store" writes
  dir,        \* the directory: a set of accounts [email, givenName, familyName]
  store,      \* the savedProvisionResult / savedDemoScript pairs, by place
  last,       \* the operation that ran last: inputs, remote calls, response
  pwgen,      \* a call of generateRandomPassword_: its random values and result
  flight      \* an invocation that has loaded the stored state and not yet saved

vars == <<rev, deploy, users, faults, dir, store, last, pwgen, flight>>

\* the pair of properties the operations of requester q read and write
Stored(q) == store[storeOf(deploy, rev, q)]

\* The values an input of an invocation is drawn from: all of S, or only the
\* value `normal` in a behaviour whose remote services do not fail.
Inputs(S, normal) == IF "remote" \in faults THEN S ELSE {normal}

\* How the writes of one saveDemoState end: any way, or well in a behaviour
\* whose property store does not fail.
StoreInputs == IF "store" \in faults THEN WriteOutcomes ELSE {"ok"}

\* --------------------------------------------------------------- responses

\* A response object.  createUser returns the provisioning fields at the top
\* level; getInitialAppState returns them in provisionResult.
NoResp ==
  [success |-> FALSE, error |-> "", email |-> NoAddr, password |-> Absent,
   firstName |-> Absent, lastName |-> Absent,
   provisionResult |-> None, demoScript |-> None]

\* { success: false, error: msg }
Failure(msg) == [NoResp EXCEPT !.error = msg]

\* The record of one invocation.  lookup, create, update, delete and model are
\* the status of each remote request ("none": not issued); gen is the password
\* the invocation generated; loaded is what loadDemoState returned to it;
\* repeat says that the operation before it was the same operation of the same
\* requester with the same argument, and succeeded; before is what the store
\* held for the requester when the invocation began; afterCreate says that the
\* operation before it was a createUser of the same requester that created the
\* account; calls lists the remote requests in the order the invocation issued
\* them; prompt is the prompt it built; audit lists the entries it passed to
\* logPromptAndOutput and logged says how the logging ended.
OpRecord(op, requester) ==
  [op |-> op, requester |-> requester, arg |-> NoAddr, outcome |-> "returned",
   resp |-> NoResp, derived |-> NoAddr,
   lookup |-> "none", create |-> "none", update |-> "none",
   delete |-> "none", model |-> "none",
   text |-> NoText, gen |-> Absent, loadCalled |-> FALSE, loaded |-> None,
   repeat |-> FALSE, before |-> EmptySlot, afterCreate |-> FALSE,
   calls |-> <<>>, prompt |-> None, audit |-> <<>>, logged |-> "none",
   write |-> "none"]

\* The requesters of one behaviour: an ordinary identified requester together
\* with the requester the platform cannot identify, or the requester whose
\* email revisions 2 and 3 treat specially; it is played against the latest
\* revision (in revision 1 it is an ordinary requester, and revision 2 derives
\* its identity with the same code as revision 3).
Casts == {{JaneEmail, EmptyEmail}, {MawiEmail}}

Init ==
  /\ rev \in 1..3
  /\ deploy = "user"
  /\ users \in Casts
  /\ faults = {"remote"}
  /\ users = {MawiEmail} => rev = 3
  /\ dir = {}
  /\ store = [q \in Requesters |-> EmptySlot]
  /\ last = OpRecord("none", EmptyEmail)
  /\ pwgen = NoRun
  /\ flight = NoFlight

\* what every invocation does when it returns
Return(rec, newDir, newSlot) ==
  \E r \in {rec} :
    /\ last' = [r EXCEPT !.repeat = /\ last.op = r.op
                                    /\ last.requester = r.requester
                                    /\ last.arg = r.arg
                                    /\ last.outcome = "returned"
                                    /\ last.resp.success,
                         !.before = Stored(r.requester),
                         !.afterCreate = /\ last.op = "createUser"
                                         /\ last.requester = r.requester
                                         /\ last.outcome = "returned"
                                         /\ last.resp.success
                                         /\ last.lookup = "404"
                                         /\ last.create \in {"200", "201"}]
    /\ dir' = newDir
    /\ store' = [store EXCEPT ![storeOf(deploy, rev, r.requester)] = newSlot]
    /\ UNCHANGED <<rev, deploy, users, faults, pwgen>>

\* what an operation does when it ends, run from its load to its return with
\* nothing in between
Finish(rec, newDir, newSlot) == Return(rec, newDir, newSlot) /\ UNCHANGED flight

\* An input an invocation never reads is fixed to its first value, so that
\* every outcome is produced once.
Unread(cond, input, first) == cond => input = first

\* ------------------------------------------------------ getInitialAppState

\* initialProvisionResult with a password in place of null
initialProvisionResult_WithPassword(primaryEmail, existingUser) ==
  PR(primaryEmail, "pw1", existingUser.givenName, existingUser.familyName)

\* the provisionResult getInitialAppState builds for an account it found
initialProvisionResult(primaryEmail, existingUser) ==
  PR(primaryEmail, Null, existingUser.givenName, existingUser.familyName)

\* initialStateResponse without the stored script
initialStateResponse_NoScript(provisionResult, savedState) ==
  [NoResp EXCEPT !.success = TRUE,
                 !.provisionResult = Some(provisionResult)]

\* { success: true, provisionResult, demoScript: savedState ?
\*   savedState.demoScript : null }
initialStateResponse(provisionResult, savedState) ==
  [NoResp EXCEPT !.success = TRUE,
                 !.provisionResult = Some(provisionResult),
                 !.demoScript = IF savedState # None
                                THEN savedState[1].demoScript
                                ELSE None]

getInitialAppState(q) ==
  /\ rev = 1
  /\ \E auth \in Inputs(AuthOutcomes(rev), "ok"),
        lnet \in Inputs(LookupNets, "answer"),
        w \in StoreInputs \ {"failsSecond"} :
       LET rec0 == OpRecord("getInitialAppState", q)
           primaryEmail == initialPrimaryEmail(q)
           token == getAdminAccessToken(rev, auth)
           status == lookupStatus(dir, primaryEmail, lnet)
           rec1 == [rec0 EXCEPT !.derived = primaryEmail]
           rec2 == [rec1 EXCEPT !.lookup = status, !.calls = <<"lookup">>]
       IN
       /\ Unread(q = EmptyEmail, auth, "ok")
       /\ Unread(q = EmptyEmail \/ token # "token", lnet, "answer")
       /\ Unread(q = EmptyEmail \/ token # "token" \/ status # "200"
                 \/ lnet = "badbody", w, "ok")
       /\ IF q = EmptyEmail
          THEN Finish([rec0 EXCEPT !.resp = Failure("no requester")], dir, Stored(q))
          ELSE IF token = "throws"
          THEN Finish([rec1 EXCEPT !.outcome = "raised"], dir, Stored(q))
          ELSE IF token = "null"
          THEN Finish([rec1 EXCEPT !.resp = Failure("no token")], dir, Stored(q))
          ELSE IF status = "exception" \/ lnet = "badbody"
          THEN Finish([rec2 EXCEPT !.resp = Failure("network exception")],
                      dir, Stored(q))
          ELSE IF status = "200"
          THEN LET existingUser == AccountOf(dir, primaryEmail)
                   provisionResult == initialProvisionResult(primaryEmail,
                                                             existingUser)
                   saved == saveDemoStateWrites(Stored(q), Some(provisionResult),
                                                None, w)
                   savedState == loadDemoState(rev, saved)
                   loaded == afterLoad(rev, saved)
               IN Finish([rec2 EXCEPT
                            !.write = w,
                            !.loadCalled = TRUE,
                            !.loaded = savedState,
                            !.resp = initialStateResponse(provisionResult,
                                                         savedState)],
                         dir, loaded)
          ELSE Finish([rec2 EXCEPT !.resp = NoResp], dir, clearDemoState(Stored(q)))

\* ------------------------------------------------------------- createUser

\* foundResult with a password in place of null
foundResult_WithPassword(primaryEmail, existingUser) ==
  [NoResp EXCEPT !.success = TRUE,
                 !.email = primaryEmail,
                 !.password = "pw1",
                 !.firstName = existingUser.givenName,
                 !.lastName = existingUser.familyName]

\* the result createDemoUserInRoot returns for an account that exists
foundResult(primaryEmail, existingUser) ==
  [NoResp EXCEPT !.success = TRUE,
                 !.email = primaryEmail,
                 !.password = Null,
                 !.firstName = existingUser.givenName,
                 !.lastName = existingUser.familyName]

\* createSucceeded for every status the directory answers with
createSucceeded_AnyAnswer(code) == code # "exception"

\* createResponse.getResponseCode() === 200 || ... === 201
createSucceeded(code) == code \in {"200", "201"}

\* createRequests with a second request after a failed one
createRequests_RetryOnFailure(code) ==
  IF code \in {"200", "201"} THEN <<"create">> ELSE <<"create", "create">>

\* UrlFetchApp.fetch(createUserUrl, createOptions): the create requests one
\* invocation issues, whatever the status of the answer
createRequests(code) == <<"create">>

\* createDemoUserInRoot(requestingUserEmail, firstName, lastName): the result
\* object, the remote requests it issued and the directory after it
createDemoUserInRoot(r, d, email, firstName, lastName, auth, prefix, lnet, cnet, pw) ==
  LET token == getAdminAccessToken(r, auth)
      primaryEmail == Address(prefix)
      ls == lookupStatus(d, primaryEmail, lnet)
      cs == createStatus(d, primaryEmail, cnet)
      t0 == [outcome |-> "returned", result |-> NoResp, derived |-> NoAddr,
             lookup |-> "none", create |-> "none", gen |-> Absent, dir |-> d,
             calls |-> <<>>]
      t1 == [t0 EXCEPT !.derived = primaryEmail, !.lookup = ls,
                       !.calls = <<"lookup">>]
      t2 == [t1 EXCEPT !.gen = pw, !.create = cs,
                       !.calls = <<"lookup">> \o createRequests(cs)]
  IN
  IF token = "throws" THEN [t0 EXCEPT !.outcome = "raised"]
  ELSE IF token = "null" THEN [t0 EXCEPT !.result = Failure("no token")]
  ELSE IF ls = "exception" \/ lnet = "badbody"
  THEN [t1 EXCEPT !.result = Failure("network exception")]
  ELSE IF ls = "200"
  THEN LET existingUser == AccountOf(d, primaryEmail)
       IN [t1 EXCEPT !.result = foundResult(primaryEmail, existingUser)]
  ELSE IF ls = "404"
  THEN IF cs = "exception"
       THEN [t2 EXCEPT !.result = Failure("network exception")]
       ELSE IF createSucceeded(cs)
       THEN [t2 EXCEPT
               !.result = [NoResp EXCEPT
                             !.success = TRUE,
                             !.email = primaryEmail,
                             !.password = pw,
                             !.firstName = firstName,
                             !.lastName = lastName],
               !.dir = d \cup {[email |-> primaryEmail,
                                givenName |-> firstName,
                                familyName |-> lastName]}]
       ELSE [t2 EXCEPT !.result = Failure("create failed")]
  ELSE [t1 EXCEPT !.result = Failure("unexpected code")]

\* storeProvisionResult without the clearDemoState call
storeProvisionResult_NoClear(slot, provisionResult, w) ==
  saveDemoState(slot, Some(provisionResult), None)

\* clearDemoState(); saveDemoState(provisionResult, null);
storeProvisionResult(slot, provisionResult, w) ==
  saveDemoStateWrites(clearDemoState(slot), Some(provisionResult), None, w)

createUser(q, firstName, lastName) ==
  \E auth \in Inputs(AuthOutcomes(rev), "ok") :
    /\ Unread(q = EmptyEmail, auth, "ok")
    /\ \E prefix \in createPrefixes(rev, q),
          lnet \in Inputs(LookupNets, "answer") :
         LET unread2 == q = EmptyEmail \/ getAdminAccessToken(rev, auth) # "token"
             unread3 == unread2 \/ lookupStatus(dir, Address(prefix), lnet) # "404"
         IN
         /\ Unread(unread2, lnet, "answer")
         /\ Unread(unread2, prefix, CHOOSE p \in createPrefixes(rev, q) : TRUE)
         /\ \E cnet \in Inputs(Nets, "answer"), pw \in Inputs(Passwords, "pw1"),
               w \in StoreInputs \ {"failsSecond"} :
              \E t \in {createDemoUserInRoot(rev, dir, q, firstName, lastName,
                                              auth, prefix, lnet, cnet, pw)} :
              LET rec0 == OpRecord("createUser", q)
                  rec1 == [rec0 EXCEPT !.outcome = t.outcome, !.resp = t.result,
                                       !.derived = t.derived, !.lookup = t.lookup,
                                       !.create = t.create, !.gen = t.gen,
                                       !.calls = t.calls]
                  provisionResult == PR(t.result.email, t.result.password,
                                        t.result.firstName, t.result.lastName)
              IN
              /\ Unread(unread3, cnet, "answer")
              /\ Unread(unread3, pw, "pw1")
              /\ Unread(unread3 \/ ~t.result.success, firstName, "Ann")
              /\ Unread(q = EmptyEmail \/ t.outcome # "returned"
                        \/ ~t.result.success, w, "ok")
              /\ IF q = EmptyEmail
                 THEN Finish([rec0 EXCEPT !.resp = Failure("no requester")],
                             dir, Stored(q))
                 ELSE IF t.outcome = "returned" /\ t.result.success
                 THEN Finish(IF saveThrows(rev, w)
                             THEN [rec1 EXCEPT !.write = w, !.outcome = "raised",
                                               !.resp = NoResp]
                             ELSE [rec1 EXCEPT !.write = w],
                             t.dir,
                             storeProvisionResult(Stored(q), provisionResult, w))
                 ELSE Finish(rec1, t.dir, Stored(q))

\* ---------------------------------------------- resetPasswordForDemoUser

\* withNewPassword that builds a new object from the email and the password
withNewPassword_EmailOnly(provisionResult, newPassword) ==
  PR(provisionResult.email, newPassword, Absent, Absent)

\* withNewPassword without the assignment
withNewPassword_Unchanged(provisionResult, newPassword) == provisionResult

\* savedState.provisionResult.password = newPassword
withNewPassword(provisionResult, newPassword) ==
  [provisionResult EXCEPT !.password = newPassword]

\* updateSucceeded for every status the directory answers with
updateSucceeded_AnyAnswer(updateResponseCode) == updateResponseCode # "exception"

\* updateResponseCode === 200
updateSucceeded(updateResponseCode) == updateResponseCode = "200"

resetPasswordForDemoUser(q) ==
  \E auth \in Inputs(AuthOutcomes(rev), "ok"), unet \in Inputs(Nets, "answer"),
     newPassword \in Inputs(Passwords, "pw2"), w \in StoreInputs :
    LET savedState == loadDemoState(rev, Stored(q))
        slot == afterLoad(rev, Stored(q))
        rec0 == [OpRecord("resetPasswordForDemoUser", q) EXCEPT
                   !.loadCalled = TRUE, !.loaded = savedState]
        noUser == savedState = None
                  \/ savedState[1].provisionResult.email = NoAddr
        token == getAdminAccessToken(rev, auth)
        primaryEmail == savedState[1].provisionResult.email
        status == updateStatus(dir, primaryEmail, unet)
        rec1 == [rec0 EXCEPT !.gen = newPassword, !.update = status,
                             !.calls = <<"update">>]
        updated == withNewPassword(savedState[1].provisionResult, newPassword)
    IN
    /\ Unread(noUser, auth, "ok")
    /\ Unread(noUser \/ token # "token", unet, "answer")
    /\ Unread(noUser \/ token # "token", newPassword, "pw1")
    /\ Unread(noUser \/ token # "token" \/ ~updateSucceeded(status), w, "ok")
    /\ w = "failsSecond" => savedState[1].demoScript # None
    /\ IF loadThrows(rev, Stored(q))
       THEN Finish([rec0 EXCEPT !.outcome = "raised"], dir, Stored(q))
       ELSE IF noUser
       THEN Finish([rec0 EXCEPT !.resp = Failure("no demo user")], dir, slot)
       ELSE IF token = "throws"
       THEN Finish([rec0 EXCEPT !.outcome = "raised"], dir, slot)
       ELSE IF token = "null"
       THEN Finish([rec0 EXCEPT !.resp = Failure("no token")], dir, slot)
       ELSE IF status = "exception"
       THEN Finish([rec1 EXCEPT !.resp = Failure("network exception")],
                   dir, slot)
       ELSE IF updateSucceeded(status)
       THEN Finish([rec1 EXCEPT !.write = w,
                                !.resp = IF saveThrows(rev, w)
                                         THEN Failure("network exception")
                                         ELSE [NoResp EXCEPT
                                                 !.success = TRUE,
                                                 !.password = newPassword]],
                   dir,
                   saveDemoStateWrites(slot, Some(updated),
                                       savedState[1].demoScript, w))
       ELSE Finish([rec1 EXCEPT !.resp = Failure("reset failed")], dir, slot)

\* ------------------------------------------------------ generateDemoScript

\* How the call to the generative model can end: the API key is missing, the
\* service answers with a status other than 200, it answers 200 with a body
\* that does not parse, it answers without a candidate text, the request
\* throws, or it answers with a candidate text.
GeminiOutcomes == {"nokey", "status", "badbody", "nocandidate", "exception", "text"}

\* callGeminiAPI(prompt, modelName): the result and the status of the request
callGeminiAPI(g, text) ==
  CASE g = "nokey" ->
         [success |-> FALSE, text |-> NoText, status |-> "none"]
    [] g = "status" ->
         [success |-> FALSE, text |-> NoText, status |-> "500"]
    [] g = "badbody" ->
         [success |-> FALSE, text |-> NoText, status |-> "200"]
    [] g = "nocandidate" ->
         [success |-> FALSE, text |-> NoText, status |-> "200"]
    [] g = "exception" ->
         [success |-> FALSE, text |-> NoText, status |-> "exception"]
    [] OTHER ->
         [success |-> TRUE, text |-> text, status |-> "200"]

\* persistScript with the save ahead of the validation
persistScript_SaveFirst(slot, provisionResult, scriptObject, verdict, w) ==
  IF verdict # "throws"
  THEN saveDemoStateWrites(slot, Some(provisionResult),
                           Some(Script(scriptObject)), w)
  ELSE slot

\* The validation and the save of generateDemoScript: the parsed object is
\* saved with the loaded provisioning result only when the validation passed.
persistScript(slot, provisionResult, scriptObject, verdict, w) ==
  IF verdict = "valid"
  THEN saveDemoStateWrites(slot, Some(provisionResult),
                           Some(Script(scriptObject)), w)
  ELSE slot

\* demoContext supplied by the client
Contexts == {"needs"}

\* constructDemoScriptPrompt_(demoContext, demoUserFirstName, demoUserLastName,
\* demoUserEmail): the four values the template interpolates
constructDemoScriptPrompt_(demoContext, demoUserFirstName, demoUserLastName, demoUserEmail) ==
  [context |-> demoContext, firstName |-> demoUserFirstName,
   lastName |-> demoUserLastName, email |-> demoUserEmail]

\* how the append to the logging sheet can end
LogOutcomes == {"ok", "fails"}

\* logPromptAndOutput without its try block
logPromptAndOutput_NoCatch(lognet) ==
  IF lognet = "ok" THEN "written" ELSE "throws"

\* logPromptAndOutput(prompt, output): the row is written, or the exception is
\* caught and reported on the console
logPromptAndOutput(lognet) ==
  IF lognet = "ok" THEN "written" ELSE "swallowed"

\* what generateDemoScript has done when nothing but the load has happened
GenerateOutcome(savedState, slot) ==
  [outcome |-> "returned", resp |-> NoResp, slot |-> slot,
   model |-> "none", text |-> NoText, prompt |-> None,
   audit |-> <<>>, logged |-> "none", calls |-> <<>>,
   loaded |-> savedState, write |-> "none"]

\* generateDemoScript(demoContext) from the point where loadDemoState() has
\* returned savedState, on the stored pair `slot` its save will write to: how
\* it ends, its response, the stored pair after it, and what it did on the
\* way.  Only revision 1 calls logPromptAndOutput; the schema check of
\* revision 3 returns its own error.  The save is inside the try block of the
\* parse: an exception it passes on (revision 3) ends in the answer for
\* malformed data.
generateDemoScriptFrom(r, savedState, slot, demoContext, g, text, lognet, w) ==
  LET provisionResult == savedState[1].provisionResult
      demoScriptPrompt ==
        constructDemoScriptPrompt_(demoContext, provisionResult.firstName,
                                   provisionResult.lastName, provisionResult.email)
      scriptGenerationResult == callGeminiAPI(g, text)
      parsed == JSONparse(scriptGenerationResult.text)
      scriptObject == parsed.value
      verdict == validateScript(scriptObject)
      saved == persistScript(slot, provisionResult, scriptObject, verdict, w)
      log == logPromptAndOutput(lognet)
      o0 == GenerateOutcome(savedState, slot)
      o1 == [o0 EXCEPT !.prompt = Some(demoScriptPrompt),
                       !.model = scriptGenerationResult.status,
                       !.text = scriptGenerationResult.text,
                       !.calls = IF scriptGenerationResult.status = "none"
                                 THEN <<>> ELSE <<"model">>]
      Logged(o, output) ==
        IF r # 1 THEN o
        ELSE [o EXCEPT
                !.audit = <<[prompt |-> demoScriptPrompt, output |-> output,
                             text |-> scriptGenerationResult.text]>>,
                !.logged = log,
                !.outcome = IF log = "throws" THEN "raised" ELSE o.outcome,
                !.resp = IF log = "throws" THEN NoResp ELSE o.resp]
  IN
  IF savedState = None
  THEN [o0 EXCEPT !.resp = Failure("no demo user")]
  ELSE IF ~scriptGenerationResult.success
  THEN Logged([o1 EXCEPT !.resp = Failure("generation failed")], "failed")
  ELSE IF ~parsed.ok
  THEN Logged([o1 EXCEPT !.resp = Failure("malformed data")], "malformed")
  ELSE IF verdict = "throws"
  THEN Logged([o1 EXCEPT !.resp = Failure("malformed data"), !.slot = saved],
              "malformed")
  ELSE IF verdict = "invalid"
  THEN IF r = 3
       THEN [o1 EXCEPT !.resp = Failure("missing fields"), !.slot = saved]
       ELSE Logged([o1 EXCEPT !.resp = Failure("malformed data"),
                              !.slot = saved], "malformed")
  ELSE IF saveThrows(r, w)
  THEN Logged([o1 EXCEPT !.resp = Failure("malformed data"), !.slot = saved,
                         !.write = w], "malformed")
  ELSE Logged([o1 EXCEPT
                 !.resp = [NoResp EXCEPT
                             !.success = TRUE,
                             !.demoScript = Some(Script(scriptObject))],
                 !.slot = saved, !.write = w], "script")

\* generateDemoScript(demoContext) on the stored pair `stored`, with nothing
\* else running between its load and its save
generateDemoScriptResult(r, stored, demoContext, g, text, lognet, w) ==
  IF loadThrows(r, stored)
  THEN [GenerateOutcome(None, stored) EXCEPT !.outcome = "raised"]
  ELSE generateDemoScriptFrom(r, loadDemoState(r, stored), afterLoad(r, stored),
                              demoContext, g, text, lognet, w)

generateDemoScript(q) ==
  \E demoContext \in Contexts, g \in Inputs(GeminiOutcomes, "text") :
    /\ Unread(loadDemoState(rev, Stored(q)) = None, g, "text")
    /\ \E text \in Inputs(AiTexts, MinimalText),
          lognet \in Inputs(LogOutcomes, "ok"), w \in StoreInputs :
         \E o \in {generateDemoScriptResult(rev, Stored(q), demoContext, g, text,
                                           lognet, w)} :
         LET rec == [OpRecord("generateDemoScript", q) EXCEPT
                       !.loadCalled = TRUE, !.loaded = o.loaded,
                       !.outcome = o.outcome, !.resp = o.resp,
                       !.model = o.model, !.text = o.text, !.calls = o.calls,
                       !.prompt = o.prompt, !.audit = o.audit,
                       !.logged = o.logged, !.write = o.write]
         IN
         /\ Unread(o.write = "none", w, "ok")
         /\ Unread(o.loaded = None \/ g # "text", text, MinimalText)
         /\ Unread(o.audit = <<>>, lognet, "ok")
         /\ Finish(rec, dir, o.slot)

\* ------------------------------------------------------- deleteDemoAccount

\* deleteSucceeded for every status the directory answers with
deleteSucceeded_AnyAnswer(responseCode) == responseCode # "exception"

\* deleteSucceeded without the 404 case
deleteSucceeded_Only204(responseCode) == responseCode = "204"

\* responseCode === 204 || responseCode === 404
deleteSucceeded(responseCode) == responseCode \in {"204", "404"}

deleteDemoAccount(q, userEmail) ==
  \E auth \in Inputs(AuthOutcomes(rev), "ok"), dnet \in Inputs(Nets, "answer") :
    LET rec0 == [OpRecord("deleteDemoAccount", q) EXCEPT !.arg = userEmail]
        token == getAdminAccessToken(rev, auth)
        responseCode == deleteStatus(dir, userEmail, dnet)
        rec1 == [rec0 EXCEPT !.delete = responseCode, !.calls = <<"delete">>]
    IN
    /\ Unread(userEmail = NoAddr, auth, "ok")
    /\ Unread(userEmail = NoAddr \/ token # "token", dnet, "answer")
    /\ IF userEmail = NoAddr
       THEN Finish([rec0 EXCEPT !.resp = Failure("no email")], dir, Stored(q))
       ELSE IF token = "throws"
       THEN Finish([rec0 EXCEPT !.outcome = "raised"], dir, Stored(q))
       ELSE IF token = "null"
       THEN Finish([rec0 EXCEPT !.resp = Failure("no token")], dir, Stored(q))
       ELSE IF responseCode = "exception"
       THEN Finish([rec1 EXCEPT !.resp = Failure("network exception")],
                   dir, Stored(q))
       ELSE IF deleteSucceeded(responseCode)
       THEN Finish([rec1 EXCEPT !.resp = [NoResp EXCEPT !.success = TRUE]],
                   {a \in dir : a.email # userEmail},
                   clearDemoState(Stored(q)))
       ELSE Finish([rec1 EXCEPT !.resp = Failure("delete failed")], dir, Stored(q))

\* ------------------------------------------------------------ specification

Next ==
  \/ \E q \in users : getInitialAppState(q)
  \/ \E q \in users, f \in Inputs(FirstNames, "Ann"), l \in LastNames :
       createUser(q, f, l)
  \/ \E q \in users : resetPasswordForDemoUser(q)
  \/ \E q \in users : generateDemoScript(q)
  \/ \E q \in users, e \in DeleteArgs(rev, users) : deleteDemoAccount(q, e)

Spec == Init /\ [][Next]_vars

\* The application called by a requester whose email has no "@".
InitNoAt ==
  /\ rev \in 1..3
  /\ deploy = "user"
  /\ users = {NoAtEmail}
  /\ faults = {"remote"}
  /\ dir = {}
  /\ store = [q \in Requesters |-> EmptySlot]
  /\ last = OpRecord("none", EmptyEmail)
  /\ pwgen = NoRun
  /\ flight = NoFlight

SpecNoAt == InitNoAt /\ [][Next]_vars

\* Two identified requesters call the application, which executes as the
\* calling user or as the deploying user.  Their emails differ; the remote
\* services do not fail.
InitTwo ==
  /\ rev \in 1..3
  /\ deploy \in Deployments
  /\ users = {JaneEmail, JDoeEmail}
  /\ faults = {}
  /\ dir = {}
  /\ store = [q \in Requesters |-> EmptySlot]
  /\ last = OpRecord("none", EmptyEmail)
  /\ pwgen = NoRun
  /\ flight = NoFlight

SpecTwo == InitTwo /\ [][Next]_vars

\* what the store can hold for a requester when a stored text does not parse
CorruptSlots ==
  {[pr |-> Some(CorruptPR), script |-> None],
   [pr |-> Some(CorruptPR), script |-> Some(Script(JSONparse(FullText).value))],
   [pr |-> Some(PR(initialPrimaryEmail(JaneEmail), Null, "Ann", "Lee")),
    script |-> Some(CorruptScript)]}

\* The application called by a requester whose stored texts do not parse, with
\* or without the requester's demo account in the directory.
InitCorrupt ==
  /\ rev \in 1..3
  /\ deploy = "user"
  /\ users = {JaneEmail}
  /\ faults = {"remote"}
  /\ dir \in {{}, {[email |-> initialPrimaryEmail(JaneEmail),
                    givenName |-> "Ann", familyName |-> "Lee"]}}
  /\ \E slot \in CorruptSlots :
       store = [q \in Requesters |-> IF q = JaneEmail THEN slot ELSE EmptySlot]
  /\ last = OpRecord("none", EmptyEmail)
  /\ pwgen = NoRun
  /\ flight = NoFlight

SpecCorrupt == InitCorrupt /\ [][Next]_vars

\* The application called by one requester only, an ordinary one or the one
\* revisions 2 and 3 treat specially (played against the latest revision); the
\* directory changes by the operations of this requester alone.
InitOne ==
  /\ rev \in 1..3
  /\ deploy = "user"
  /\ users \in {{JaneEmail}, {MawiEmail}}
  /\ users = {MawiEmail} => rev = 3
  /\ faults = {"remote"}
  /\ dir = {}
  /\ store = [q \in Requesters |-> EmptySlot]
  /\ last = OpRecord("none", EmptyEmail)
  /\ pwgen = NoRun
  /\ flight = NoFlight

SpecOne == InitOne /\ [][Next]_vars

\* The application called by one requester while the writes to the property
\* store can fail; the remote services answer normally.
InitWrite ==
  /\ rev \in 1..3
  /\ deploy = "user"
  /\ users = {JaneEmail}
  /\ faults = {"store"}
  /\ dir = {}
  /\ store = [q \in Requesters |-> EmptySlot]
  /\ last = OpRecord("none", EmptyEmail)
  /\ pwgen = NoRun
  /\ flight = NoFlight

SpecWrite == InitWrite /\ [][Next]_vars

\* ------------------------------------------- invocations that overlap
\* The client starts each invocation with google.script.run and the platform
\* runs them concurrently; no handler takes a lock.  An invocation that loads
\* the stored state and saves after a remote call is split at the remote call,
\* where the others can run.

\* generateDemoScript up to the return of loadDemoState() with a stored user
generateDemoScriptLoad(q) ==
  /\ flight = NoFlight
  /\ ~loadThrows(rev, Stored(q))
  /\ loadDemoState(rev, Stored(q)) # None
  /\ flight' = [NoFlight EXCEPT !.op = "generateDemoScript",
                                !.requester = q,
                                !.savedState = loadDemoState(rev, Stored(q))]
  /\ store' = [store EXCEPT ![storeOf(deploy, rev, q)] = afterLoad(rev, Stored(q))]
  /\ UNCHANGED <<rev, deploy, users, faults, dir, last, pwgen>>

\* generateDemoScript from the call to the model to its return
generateDemoScriptSave(q) ==
  /\ flight.op = "generateDemoScript"
  /\ flight.requester = q
  /\ \E demoContext \in Contexts, g \in Inputs(GeminiOutcomes, "text"),
        text \in Inputs(AiTexts, MinimalText),
        lognet \in Inputs(LogOutcomes, "ok"), w \in StoreInputs :
       \E o \in {generateDemoScriptFrom(rev, flight.savedState, Stored(q),
                                        demoContext, g, text, lognet, w)} :
       LET rec == [OpRecord("generateDemoScript", q) EXCEPT
                     !.loadCalled = TRUE, !.loaded = o.loaded,
                     !.outcome = o.outcome, !.resp = o.resp,
                     !.model = o.model, !.text = o.text, !.calls = o.calls,
                     !.prompt = o.prompt, !.audit = o.audit,
                     !.logged = o.logged, !.write = o.write]
       IN
       /\ Unread(g # "text", text, MinimalText)
       /\ Unread(o.audit = <<>>, lognet, "ok")
       /\ Unread(o.write = "none", w, "ok")
       /\ Return(rec, dir, o.slot)
       /\ flight' = NoFlight

\* resetPasswordForDemoUser up to the answer 200 of the directory to its PUT
resetPasswordUpdate(q) ==
  /\ flight = NoFlight
  /\ ~loadThrows(rev, Stored(q))
  /\ \E auth \in Inputs(AuthOutcomes(rev), "ok"), unet \in Inputs(Nets, "answer"),
        newPassword \in Inputs(Passwords, "pw2") :
       LET savedState == loadDemoState(rev, Stored(q))
           primaryEmail == savedState[1].provisionResult.email
           status == updateStatus(dir, primaryEmail, unet)
       IN
       /\ savedState # None
       /\ primaryEmail # NoAddr
       /\ getAdminAccessToken(rev, auth) = "token"
       /\ updateSucceeded(status)
       /\ flight' = [NoFlight EXCEPT !.op = "resetPasswordForDemoUser",
                                     !.requester = q,
                                     !.savedState = savedState,
                                     !.gen = newPassword,
                                     !.update = status]
  /\ store' = [store EXCEPT ![storeOf(deploy, rev, q)] = afterLoad(rev, Stored(q))]
  /\ UNCHANGED <<rev, deploy, users, faults, dir, last, pwgen>>

\* resetPasswordForDemoUser from its saveDemoState to its return
resetPasswordSave(q) ==
  /\ flight.op = "resetPasswordForDemoUser"
  /\ flight.requester = q
  /\ \E w \in StoreInputs :
       LET savedState == flight.savedState
           updated == withNewPassword(savedState[1].provisionResult, flight.gen)
           rec == [OpRecord("resetPasswordForDemoUser", q) EXCEPT
                     !.loadCalled = TRUE, !.loaded = savedState,
                     !.gen = flight.gen, !.update = flight.update,
                     !.calls = <<"update">>, !.write = w,
                     !.resp = IF saveThrows(rev, w)
                              THEN Failure("network exception")
                              ELSE [NoResp EXCEPT !.success = TRUE,
                                                  !.password = flight.gen]]
       IN
       /\ w = "failsSecond" => savedState[1].demoScript # None
       /\ Return(rec, dir,
                 saveDemoStateWrites(Stored(q), Some(updated),
                                     savedState[1].demoScript, w))
       /\ flight' = NoFlight

\* The application called by one requester whose invocations overlap; the
\* remote services and the store do not fail.
InitRace ==
  /\ rev \in 1..3
  /\ deploy = "user"
  /\ users = {JaneEmail}
  /\ faults = {}
  /\ dir = {}
  /\ store = [q \in Requesters |-> EmptySlot]
  /\ last = OpRecord("none", EmptyEmail)
  /\ pwgen = NoRun
  /\ flight = NoFlight

NextRace ==
  \/ Next
  \/ \E q \in users : generateDemoScriptLoad(q)
  \/ \E q \in users : generateDemoScriptSave(q)
  \/ \E q \in users : resetPasswordUpdate(q)
  \/ \E q \in users : resetPasswordSave(q)

SpecRace == InitRace /\ [][NextRace]_vars

\* One call of generateRandomPassword_(14), in any revision, on the values
\* Math.random() returns to it.
InitPassword ==
  /\ rev \in 1..3
  /\ deploy = "user"
  /\ users = {JaneEmail}
  /\ faults = {}
  /\ dir = {}
  /\ store = [q \in Requesters |-> EmptySlot]
  /\ last = OpRecord("none", EmptyEmail)
  /\ flight = NoFlight
  /\ \E random \in RandomDraws, order \in Orders :
       pwgen = [NoRun EXCEPT !.random = random, !.order = order]

generatePassword ==
  /\ pwgen.random # <<>>
  /\ pwgen.password = <<>>
  /\ pwgen' = [pwgen EXCEPT
                 !.built = buildPassword(PasswordLength, pwgen.random),
                 !.password = generateRandomPassword_(PasswordLength,
                                                      pwgen.random, pwgen.order)]
  /\ UNCHANGED <<rev, deploy, users, faults, dir, store, last, flight>>

NextPassword == generatePassword

SpecPassword == InitPassword /\ [][NextPassword]_vars

\* ------------------------------------------------------------------ claims

\* the requester's stored state
Slot(q) == store[q]

\* the passwords a response carries, at the top level or in provisionResult
ResponsePasswords(resp) ==
  {p \in ({resp.password}
          \cup {resp.provisionResult[i].password :
                  i \in 1..Len(resp.provisionResult)}) : IsPassword(p)}

\* the operation that ran last returned a success response
Succeeded == last.outcome = "returned" /\ last.resp.success

\* C1: every loadDemoState call that returns a state returns a provisioning
\* result without a password, whatever is stored.
C1_LoadReturnsNoPassword ==
  (last.loadCalled /\ last.loaded # None)
    => ~IsPassword(last.loaded[1].provisionResult.password)

\* C2: a response carries a password only when it is the createUser response
\* that created the account (lookup 404, create accepted) or a successful
\* resetPasswordForDemoUser response, and the password it carries is the one
\* that invocation generated: no other response, and no later one, returns it.
C2_PasswordOnlyWhenGenerated ==
  \A p \in ResponsePasswords(last.resp) :
    /\ Succeeded
    /\ \/ /\ last.op = "createUser"
          /\ last.lookup = "404"
          /\ last.create \in {"200", "201"}
       \/ /\ last.op = "resetPasswordForDemoUser"
          /\ last.update = "200"
    /\ p = last.gen
    /\ last.resp.provisionResult = None

\* C2 witness: a script generation succeeded for a requester whose stored
\* provisioning result still holds the creation password.
C2_Witness ==
  /\ last.op = "generateDemoScript"
  /\ Succeeded
  /\ Slot(last.requester).pr # None
  /\ IsPassword(Slot(last.requester).pr[1].password)

\* C3: a generateDemoScript call that reached the model and failed (model
\* failure, parse failure or schema failure) leaves the stored script, and the
\* stored provisioning result, as they were.
C3_FailedGenerationKeepsScript ==
  [][(/\ last'.op = "generateDemoScript"
      /\ last'.loaded # None
      /\ ~last'.resp.success)
       => store'[last'.requester] = store[last'.requester]]_vars

\* C3 witness: a generation failed on a payload without steps while a script
\* is stored.
C3_Witness ==
  /\ last.op = "generateDemoScript"
  /\ ~last.resp.success
  /\ last.text = NoStepsText
  /\ Slot(last.requester).script # None

\* C4: no public operation terminates by raising; every failure is returned.
C4_NeverRaises == last.outcome = "returned"

\* C5: a createUser that follows a successful createUser of the same requester
\* issues no create request and, when it succeeds, took the Found path: same
\* email as the first call, no password.
C5_SecondCreateUserIsFound ==
  [][(/\ last.op = "createUser"
      /\ last.outcome = "returned"
      /\ last.resp.success
      /\ last'.op = "createUser"
      /\ last'.requester = last.requester)
       => /\ last'.create = "none"
          /\ last'.resp.success
               => /\ last'.lookup = "200"
                  /\ last'.resp.email = last.resp.email
                  /\ ResponsePasswords(last'.resp) = {}]_vars

\* C6: a deleteDemoAccount that the directory answers with 204 or 404 reports
\* success and leaves the requester's stored state empty; a delete that repeats
\* a successful delete of the same email is answered 404 when the directory
\* answers, and so succeeds too.
C6_DeleteIsIdempotent ==
  (last.op = "deleteDemoAccount" /\ last.delete \in {"204", "404"})
    => /\ Succeeded
       /\ Slot(last.requester) = EmptySlot
       /\ last.repeat => last.delete = "404"

\* C6 witness: the second of two deletes of the same email, answered 404.
C6_Witness ==
  /\ last.op = "deleteDemoAccount"
  /\ last.repeat
  /\ last.delete = "404"
  /\ Succeeded

\* C7: when the lookup found the account, in createUser and in
\* getInitialAppState, neither the response nor the stored provisioning result
\* carries a password.
C7_FoundCarriesNoPassword ==
  (last.op \in {"createUser", "getInitialAppState"}
     /\ last.lookup = "200" /\ Succeeded)
    => /\ ResponsePasswords(last.resp) = {}
       /\ Slot(last.requester).pr # None
       /\ ~IsPassword(Slot(last.requester).pr[1].password)

\* C7 witness: getInitialAppState found the account.
C7_Witness ==
  /\ last.op = "getInitialAppState"
  /\ last.lookup = "200"
  /\ Succeeded

\* the stored script, read as the object the validation checks
AsObject(script) ==
  [kind |-> "object", title |-> script.title, steps |-> script.steps]

\* C8: the validation rejects a payload without steps and text that is not
\* raw JSON (fenced or otherwise), accepts the minimal payload with a title and
\* an empty steps array and stores it, and no rejected payload is ever stored:
\* every stored script passes the validation.
C8_ValidationOfScripts ==
  /\ (last.op = "generateDemoScript" /\ last.text # NoText)
       => /\ last.text.steps = Absent => ~last.resp.success
          /\ last.text.form # "json" => ~last.resp.success
          /\ last.text = MinimalText
               => /\ Succeeded
                  /\ Slot(last.requester).script = Some(Script(MinimalText))
          /\ (~last.resp.success /\ last.text.form = "json")
               => Slot(last.requester).script # Some(Script(last.text))
  /\ \A q \in Requesters :
       Slot(q).script # None => validateScript(AsObject(Slot(q).script[1])) = "valid"

\* C8 witness: the minimal payload was accepted.
C8_Witness ==
  /\ last.op = "generateDemoScript"
  /\ last.text = MinimalText
  /\ Succeeded

\* C9: two successive operations of the same requester that derive the demo
\* address derive the same address.
C9_DerivationIsDeterministic ==
  [][(/\ last.derived # NoAddr
      /\ last'.derived # NoAddr
      /\ last'.requester = last.requester)
       => last'.derived = last.derived]_vars

\* the positions of "@" in an email
AtPositions(email) == {i \in 1..Len(email) : email[i] = "@"}

\* the local part: the text before the first "@"
LocalPart(email) ==
  IF AtPositions(email) = {} THEN email
  ELSE SubSeq(email, 1,
              (CHOOSE i \in AtPositions(email) :
                 \A j \in AtPositions(email) : i <= j) - 1)

\* a character of a-z or 0-9
IsLowerAlnum(c) == c \in Range(LowerChars) \cup Range(DigitChars)

\* the local part lower-cased, with every character outside a-z0-9 removed
ExpectedLocal(email) ==
  SelectSeq([i \in 1..Len(LocalPart(email)) |-> toLowerCase(LocalPart(email)[i])],
            IsLowerAlnum)

\* C10: the address an operation derives is the requester's local part,
\* lower-cased and stripped of every character outside a-z0-9, at the
\* configured domain; jane.doe@example.com derives janedoe@<domain>.
C10_DerivedAddress ==
  last.derived # NoAddr
    => /\ last.derived = [local |-> ExpectedLocal(last.requester),
                          domain |-> PrimaryDomain]
       /\ last.requester = JaneEmail
            => last.derived.local = <<"j","a","n","e","d","o","e">>

\* the operation that ran last is a createUser that created the account
CreatedAccount(rec) ==
  /\ rec.op = "createUser"
  /\ rec.outcome = "returned"
  /\ rec.resp.success
  /\ rec.lookup = "404"
  /\ rec.create \in {"200", "201"}

\* the directory answered the lookup of an invocation with a user record (200)
\* or with 404
LookupAnswered(rec) ==
  rec.lookup \in {"200", "404"} /\ rec.resp.error # "network exception"

\* C11: when createUser created the account (lookup 404, create accepted) and
\* the same requester calls getInitialAppState next, and the directory answers
\* its lookup, the response is a success with the email of the create response
\* and without a password, and the stored provisioning result no longer holds
\* the creation password.
C11_CreateThenInitialState ==
  [][(/\ CreatedAccount(last)
      /\ last'.op = "getInitialAppState"
      /\ last'.requester = last.requester
      /\ LookupAnswered(last'))
       => /\ last'.outcome = "returned"
          /\ last'.resp.success
          /\ last'.resp.provisionResult # None
          /\ last'.resp.provisionResult[1].email = last.resp.email
          /\ ResponsePasswords(last'.resp) = {}
          /\ store'[last'.requester].pr # None
          /\ ~IsPassword(store'[last'.requester].pr[1].password)]_vars

\* C11 witness: getInitialAppState succeeded right after the createUser that
\* created the account, and the store held the creation password before it.
C11_Witness ==
  /\ last.op = "getInitialAppState"
  /\ last.afterCreate
  /\ Succeeded
  /\ last.before.pr # None
  /\ IsPassword(last.before.pr[1].password)
  /\ ~IsPassword(Slot(last.requester).pr[1].password)

\* C12: for a requester email without "@", the operations that derive the demo
\* address (getInitialAppState, createUser) derive nothing, return a failure
\* and issue no directory request.
C12_NoAtIsInvalidInput ==
  (/\ last.op \in {"getInitialAppState", "createUser"}
   /\ last.requester # EmptyEmail
   /\ AtPositions(last.requester) = {})
    => /\ last.outcome = "returned"
       /\ ~last.resp.success
       /\ last.derived = NoAddr
       /\ last.lookup = "none"
       /\ last.create = "none"

\* C13: after a successful createUser, whether it created the account or found
\* it, the requester's store holds the provisioning result the call returned
\* and no script, whatever it held before.
C13_CreateUserDiscardsScript ==
  (last.op = "createUser" /\ Succeeded)
    => /\ Slot(last.requester).script = None
       /\ Slot(last.requester).pr =
            Some(PR(last.resp.email, last.resp.password,
                    last.resp.firstName, last.resp.lastName))

\* C13 witness: a createUser found the account while a script was stored.
C13_Witness ==
  /\ last.op = "createUser"
  /\ Succeeded
  /\ last.lookup = "200"
  /\ last.before.script # None

\* C14: resetPasswordForDemoUser of a requester without a stored provisioning
\* result (or with one without an email) returns a failure, issues no
\* credential update and leaves the store as it was.
C14_ResetWithoutUser ==
  (/\ last.op = "resetPasswordForDemoUser"
   /\ \/ last.before.pr = None
      \/ last.before.pr[1].email = NoAddr)
    => /\ last.outcome = "returned"
       /\ ~last.resp.success
       /\ ResponsePasswords(last.resp) = {}
       /\ last.update = "none"
       /\ Slot(last.requester) = last.before

\* C14 witness: a reset was refused while the directory holds an account.
C14_Witness ==
  /\ last.op = "resetPasswordForDemoUser"
  /\ last.before.pr = None
  /\ ~last.resp.success
  /\ dir # {}

\* C15: when the directory answers the credential update with 200, the
\* operation returns the password it generated and sent, and the stored
\* provisioning result holds that password.
C15_ResetReturnsSentPassword ==
  (last.op = "resetPasswordForDemoUser" /\ last.update = "200")
    => /\ Succeeded
       /\ IsPassword(last.gen)
       /\ last.resp.password = last.gen
       /\ Slot(last.requester).pr # None
       /\ Slot(last.requester).pr[1].password = last.gen

\* C15 witness: a reset replaced a stored password by another one.
C15_Witness ==
  /\ last.op = "resetPasswordForDemoUser"
  /\ last.update = "200"
  /\ last.before.pr # None
  /\ IsPassword(last.before.pr[1].password)
  /\ last.before.pr[1].password # last.gen

\* C16: when the credential update is not answered with 200 (another status or
\* a network exception), resetPasswordForDemoUser returns a failure without a
\* password and the stored provisioning result and script are as they were.
C16_FailedResetChangesNothing ==
  (last.op = "resetPasswordForDemoUser" /\ last.update \notin {"none", "200"})
    => /\ last.outcome = "returned"
       /\ ~last.resp.success
       /\ ResponsePasswords(last.resp) = {}
       /\ Slot(last.requester) = last.before

\* C16 witness: an update answered 500 while a provisioning result and a
\* script are stored.
C16_Witness ==
  /\ last.op = "resetPasswordForDemoUser"
  /\ last.update = "500"
  /\ last.before.pr # None
  /\ last.before.script # None

\* C17: after a successful deleteDemoAccount the requester's store holds
\* neither a provisioning result nor a script, whatever it held before.
C17_DeleteClearsStore ==
  (last.op = "deleteDemoAccount" /\ Succeeded)
    => /\ Slot(last.requester).pr = None
       /\ Slot(last.requester).script = None

\* C17 witness: a delete succeeded while a provisioning result and a script
\* were stored.
C17_Witness ==
  /\ last.op = "deleteDemoAccount"
  /\ Succeeded
  /\ last.before.pr # None
  /\ last.before.script # None

\* C18: when getInitialAppState finds the account, the stored provisioning
\* result becomes the found identity (derived email, the names of the
\* directory record, no password), the stored script stays as it was, and the
\* response returns the found identity and that script (none when none was
\* stored).
C18_FoundInitialState ==
  (last.op = "getInitialAppState" /\ last.lookup = "200" /\ Succeeded)
    => /\ HasAccount(dir, last.derived)
       /\ Slot(last.requester).pr # None
       /\ Slot(last.requester).pr[1].email = last.derived
       /\ Slot(last.requester).pr[1].firstName = AccountOf(dir, last.derived).givenName
       /\ Slot(last.requester).pr[1].lastName = AccountOf(dir, last.derived).familyName
       /\ ~IsPassword(Slot(last.requester).pr[1].password)
       /\ Slot(last.requester).script = last.before.script
       /\ last.resp.provisionResult = Slot(last.requester).pr
       /\ last.resp.demoScript = last.before.script

\* C18 witness: getInitialAppState found the account while a script was stored.
C18_Witness ==
  /\ last.op = "getInitialAppState"
  /\ last.lookup = "200"
  /\ Succeeded
  /\ last.before.script # None

\* C19: when the lookup of getInitialAppState is answered 404, the stored
\* provisioning result and the stored script are removed and the response
\* signals no account: success false, no provisionResult.
C19_AbsentInitialState ==
  (last.op = "getInitialAppState" /\ last.lookup = "404")
    => /\ last.outcome = "returned"
       /\ ~last.resp.success
       /\ last.resp.provisionResult = None
       /\ Slot(last.requester) = EmptySlot

\* C19 witness: the account is absent while a provisioning result and a script
\* are stored.
C19_Witness ==
  /\ last.op = "getInitialAppState"
  /\ last.lookup = "404"
  /\ last.before.pr # None
  /\ last.before.script # None

\* C20: a lookup answered with a status other than 200 or 404, in
\* getInitialAppState and in createUser, is reported as an error that names
\* the unexpected status; it triggers no create and leaves the store as it
\* was.
C20_LookupErrorIsNotNotFound ==
  (/\ last.op \in {"getInitialAppState", "createUser"}
   /\ last.lookup \notin {"none", "200", "404", "exception"})
    => /\ last.outcome = "returned"
       /\ ~last.resp.success
       /\ last.resp.error = "unexpected code"
       /\ last.create = "none"
       /\ Slot(last.requester) = last.before

\* C21: a generateDemoScript call made when no provisioning result is stored
\* for the requester returns a failure; it builds no prompt, issues no request
\* to the model and leaves the store as it was.
C21_GenerateWithoutUser ==
  (last.op = "generateDemoScript" /\ last.before.pr = None)
    => /\ last.outcome = "returned"
       /\ ~last.resp.success
       /\ last.resp.error # ""
       /\ last.prompt = None
       /\ last.model = "none"
       /\ last.calls = <<>>
       /\ last.audit = <<>>
       /\ Slot(last.requester) = last.before

\* C21 witness: an identified requester asked for a script while nothing was
\* stored for them, with a demo account in the directory.
C21_Witness ==
  /\ last.op = "generateDemoScript"
  /\ last.requester # EmptyEmail
  /\ last.before = EmptySlot
  /\ last.resp.error = "no demo user"
  /\ dir # {}

\* C22: after a successful generateDemoScript the stored script of the
\* requester is the script the model just returned, whatever script was stored
\* before, the response returns that script, and the store holds at most one
\* script for each requester.  (Writes to the store are taken to succeed.)
C22_GeneratedScriptIsStored ==
  /\ (last.op = "generateDemoScript" /\ Succeeded)
       => /\ JSONparse(last.text).ok
          /\ Slot(last.requester).script
               = Some(Script(JSONparse(last.text).value))
          /\ last.resp.demoScript = Slot(last.requester).script
  /\ \A q \in Requesters : Len(Slot(q).script) <= 1

\* C22 witness: a generation succeeded while another script was stored.
C22_Witness ==
  /\ last.op = "generateDemoScript"
  /\ Succeeded
  /\ last.before.script # None
  /\ last.before.script # Slot(last.requester).script

\* C23: an operation invoked by one requester leaves the provisioning result
\* and the script stored for every other requester as they were.
C23_RequestersArePartitioned ==
  [][\A b \in users :
       b # last'.requester
         => store'[storeOf(deploy', rev', b)] = store[storeOf(deploy, rev, b)]]_vars

\* C27: the requesters and the derived demo addresses correspond one to one:
\* two invocations that each derived an address derived the same address
\* exactly when the same requester made them.
C27_DerivationIsOneToOne ==
  [][(last.derived # NoAddr /\ last'.derived # NoAddr)
       => (last'.derived = last.derived <=> last'.requester = last.requester)]_vars

\* C24: a failure of the audit log during generateDemoScript changes neither
\* the response nor the store: whatever the model answered to the invocation
\* that ran last, the invocation ends the same way, with the same response and
\* the same stored pair, when the append to the log fails as when it succeeds.
C24_LogFailureChangesNothing ==
  last.op = "generateDemoScript"
    => /\ last.logged = "swallowed" => last.outcome = "returned"
       /\ \A demoContext \in Contexts, g \in GeminiOutcomes, text \in AiTexts,
             w \in StoreInputs :
            \A a \in {generateDemoScriptResult(rev, last.before, demoContext,
                                               g, text, "ok", w)},
               b \in {generateDemoScriptResult(rev, last.before, demoContext,
                                               g, text, "fails", w)} :
              /\ a.outcome = b.outcome
              /\ a.resp = b.resp
              /\ a.slot = b.slot

\* C24 witness: a generation succeeded and stored its script although the
\* append to the audit log failed.
C24_Witness ==
  /\ last.op = "generateDemoScript"
  /\ last.logged = "swallowed"
  /\ Succeeded
  /\ Slot(last.requester).script = last.resp.demoScript

\* a provisioning result and a script to save
C25_Results == {PR(OtherAddr, p, "Ann", "Lee") : p \in Passwords \cup {Null}}

C25_Scripts == {Script(JSONparse(t).value) : t \in {MinimalText, FullText}}

\* C25: saveDemoState given null for one argument leaves the stored field of
\* that argument as it was, on every stored pair the application reaches:
\* saving a provisioning result alone keeps the stored script, saving a script
\* alone keeps the stored provisioning result, and the getInitialAppState that
\* found the account (it saves the provisioning result alone) kept the script.
C25_SaveKeepsOmittedField ==
  /\ \A q \in users : \A slot \in {Stored(q)} :
       /\ \A pr \in C25_Results :
            /\ saveDemoState(slot, Some(pr), None).script = slot.script
            /\ saveDemoState(slot, Some(pr), None).pr = Some(pr)
       /\ \A sc \in C25_Scripts :
            /\ saveDemoState(slot, None, Some(sc)).pr = slot.pr
            /\ saveDemoState(slot, None, Some(sc)).script = Some(sc)
       /\ saveDemoState(slot, None, None) = slot
  /\ (last.op = "getInitialAppState" /\ last.lookup = "200" /\ Succeeded)
       => Slot(last.requester).script = last.before.script

\* C25 witness: getInitialAppState saved a provisioning result alone over a
\* stored pair that held another provisioning result and a script; the script
\* is still there.
C25_Witness ==
  /\ last.op = "getInitialAppState"
  /\ Succeeded
  /\ last.before.script # None
  /\ last.before.pr # None
  /\ Slot(last.requester).pr # last.before.pr
  /\ Slot(last.requester).script = last.before.script

\* the number of requests of kind k the invocation that ran last issued
Issued(k) == Cardinality({i \in 1..Len(last.calls) : last.calls[i] = k})

\* C26: when the create request of createUser fails (the directory answers
\* with a status other than 200 and 201, or the request throws), createUser
\* returns a failure with an error text, the store of the requester stays as
\* it was (no provisioning result is saved), no account is added, and the
\* invocation issued one create request only.
C26_FailedCreate ==
  (last.op = "createUser" /\ last.create \notin {"none", "200", "201"})
    => /\ last.outcome = "returned"
       /\ ~last.resp.success
       /\ last.resp.error # ""
       /\ Slot(last.requester) = last.before
       /\ ~HasAccount(dir, last.derived)
       /\ Issued("create") = 1

\* C26 witness: the directory answered the create request with status 500
\* while an older provisioning result was stored for the requester.
C26_Witness ==
  /\ last.op = "createUser"
  /\ last.create = "500"
  /\ last.before.pr # None

\* the kinds of remote request an invocation can issue
CallKinds == {"lookup", "create", "update", "delete", "model"}

\* the recorded status of the request of kind k
StatusOf(k) ==
  CASE k = "lookup" -> last.lookup
    [] k = "create" -> last.create
    [] k = "update" -> last.update
    [] k = "delete" -> last.delete
    [] OTHER -> last.model

\* C29: an invocation issues each kind of remote request at most once (one
\* lookup, one create, one update, one delete, one model call), whether the
\* request succeeded or failed, and then ends: every request it issued has
\* one recorded status and it issued no request of another kind.
C29_NoRetry ==
  /\ \A i \in 1..Len(last.calls) : last.calls[i] \in CallKinds
  /\ \A k \in CallKinds :
       /\ Issued(k) <= 1
       /\ Issued(k) = 1 <=> StatusOf(k) # "none"
  /\ last.outcome \in {"returned", "raised"}

\* C29 witness: the create request of a createUser threw, after a lookup that
\* was answered 404; the invocation issued these two requests and no other.
C29_Witness ==
  /\ last.op = "createUser"
  /\ last.create = "exception"
  /\ last.calls = <<"lookup", "create">>

\* what the audit entry of an invocation says about how it ended
C30_Output ==
  IF Succeeded THEN "script"
  ELSE IF last.resp.error = "generation failed" THEN "failed"
  ELSE "malformed"

\* C30: a generateDemoScript invocation that sent a request to the model
\* passes one entry to the audit log, with the prompt it built and with its
\* outcome: the script on success, the failure of the model, or the malformed
\* text when the parsing or the validation failed.
C30_OneAuditEntry ==
  (last.op = "generateDemoScript" /\ last.model # "none")
    => /\ Len(last.audit) = 1
       /\ last.prompt # None
       /\ last.audit[1].prompt = last.prompt[1]
       /\ last.audit[1].output = C30_Output
       /\ last.audit[1].text = last.text

\* the invocation that ran last called loadDemoState on texts that do not parse
C28_LoadedUnparsable ==
  \/ /\ last.op \in {"resetPasswordForDemoUser", "generateDemoScript"}
     /\ parseFails(last.before)
  \/ /\ last.op = "getInitialAppState"
     /\ last.loadCalled
     /\ last.before.script = Some(CorruptScript)

\* C28: when a stored text of the requester does not parse, loadDemoState
\* returns no state and removes both stored fields, and the operation that
\* called it returns a response.
C28_UnparsableIsNoState ==
  C28_LoadedUnparsable
    => /\ last.outcome = "returned"
       /\ last.loaded = None
       /\ Slot(last.requester) = EmptySlot

\* C31: a text of the model that parses to an object in which title is present
\* and steps is an array is accepted and stored, whatever the value of title.
C31_ShallowValidation ==
  (/\ last.op = "generateDemoScript"
   /\ last.text.form = "json"
   /\ last.text.kind = "object"
   /\ last.text.title # Absent
   /\ isArray(last.text.steps))
    => /\ Succeeded
       /\ Slot(last.requester).script = Some(Script(JSONparse(last.text).value))

\* C33: in every state the operations reach, a script is stored for a
\* requester only if a provisioning result is stored for that requester; the
\* two store operations that clear (the script alone, or everything) keep it
\* so.  (Writes to the store are taken to succeed.)
C33_ScriptOnlyWithProvisionResult ==
  /\ \A q \in Requesters : Slot(q).script # None => Slot(q).pr # None
  /\ \A q \in users :
       \A s \in {clearDemoScriptOnly(Stored(q)), clearUserData(Stored(q))} :
         s.script # None => s.pr # None

\* C33 witness: a script is stored, with its provisioning result, after a
\* generation that the model refused.
C33_Witness ==
  /\ last.op = "generateDemoScript"
  /\ last.model = "500"
  /\ Slot(last.requester).script # None
  /\ Slot(last.requester).pr # None

\* C34: a deleteDemoAccount call whose argument is not the demo address
\* derived from the calling requester removes no account from the directory
\* and leaves the store of the requester as it was.
C34_DeleteOnlyOwnIdentity ==
  [][(/\ last'.op = "deleteDemoAccount"
      /\ last'.arg \notin Addresses(rev, {last'.requester}))
       => /\ dir' = dir
          /\ store'[last'.requester] = store[last'.requester]]_vars

\* C37: with one requester whose operations run one at a time, and a
\* directory that only these operations change, whenever a provisioning result
\* is stored the directory holds an account at its email, and that email is a
\* demo address derived from the requester.
C37_StoredIdentityExists ==
  \A q \in users :
    Stored(q).pr # None
      => /\ HasAccount(dir, Stored(q).pr[1].email)
         /\ Stored(q).pr[1].email \in Addresses(rev, {q})

\* C37 witness: a provisioning result is stored after a delete request that
\* the directory refused; the account is still there.
C37_Witness ==
  /\ last.op = "deleteDemoAccount"
  /\ last.delete = "500"
  /\ Stored(last.requester).pr # None
  /\ HasAccount(dir, last.arg)

\* C38: a deleteDemoAccount that fails (no email given, a status other than
\* 204 and 404, a request that throws, or no token) returns a failure and
\* leaves the stored provisioning result and the stored script as they were.
C38_FailedDeleteChangesNothing ==
  /\ (/\ last.op = "deleteDemoAccount"
      /\ \/ last.arg = NoAddr
         \/ last.delete \notin {"none", "204", "404"})
       => /\ last.outcome = "returned"
          /\ ~last.resp.success
          /\ last.resp.error # ""
          /\ Slot(last.requester) = last.before
  /\ (last.op = "deleteDemoAccount" /\ ~Succeeded)
       => Slot(last.requester) = last.before

\* C38 witness: the delete request threw while a provisioning result and a
\* script were stored.
C38_Witness ==
  /\ last.op = "deleteDemoAccount"
  /\ last.delete = "exception"
  /\ last.before.pr # None
  /\ last.before.script # None

\* C39: a successful resetPasswordForDemoUser changes the password of the
\* stored provisioning result and nothing else: the stored email, first name,
\* last name and script are after the call what they were before it.
C39_ResetChangesPasswordOnly ==
  (last.op = "resetPasswordForDemoUser" /\ Succeeded)
    => /\ last.before.pr # None
       /\ Slot(last.requester).pr # None
       /\ Slot(last.requester).pr[1].email = last.before.pr[1].email
       /\ Slot(last.requester).pr[1].firstName = last.before.pr[1].firstName
       /\ Slot(last.requester).pr[1].lastName = last.before.pr[1].lastName
       /\ Slot(last.requester).script = last.before.script

\* C39 witness: a reset succeeded while a script was stored, and replaced
\* the stored password.
C39_Witness ==
  /\ last.op = "resetPasswordForDemoUser"
  /\ Succeeded
  /\ last.before.script # None
  /\ Slot(last.requester).pr[1].password # last.before.pr[1].password

\* the number of times the character c occurs in s
Occurrences(s, c) == Cardinality({i \in 1..Len(s) : s[i] = c})

\* C32: the generated password has 14 characters, among them an upper-case
\* letter, a lower-case letter, a digit and a symbol; the shuffle gives a
\* permutation of the characters built before it, so it keeps both.
C32_PasswordShape ==
  pwgen.password # <<>>
    => /\ Len(pwgen.password) = 14
       /\ \E i \in 1..14 : pwgen.password[i] \in Range(UpperChars)
       /\ \E i \in 1..14 : pwgen.password[i] \in Range(LowerChars)
       /\ \E i \in 1..14 : pwgen.password[i] \in Range(DigitChars)
       /\ \E i \in 1..14 : pwgen.password[i] \in Range(SymbolChars)
       /\ Len(pwgen.built) = 14
       /\ \A c \in Range(AllChars) :
            Occurrences(pwgen.password, c) = Occurrences(pwgen.built, c)

\* C32 witness: a password whose ten free characters are all upper-case "A",
\* shuffled into an order other than the one it was built in.
C32_Witness ==
  /\ pwgen.password # <<>>
  /\ pwgen.password # pwgen.built
  /\ Occurrences(pwgen.password, "A") >= 10

\* C36: whenever generateDemoScript returns success with a script, the script
\* stored for the requester is the script the response returns, however the
\* writes of saveDemoState ended.  Revisions 1 and 2 catch the exception of a
\* failed write inside saveDemoState and go on to return the script.
C36_ReturnedScriptIsStored ==
  (last.op = "generateDemoScript" /\ Succeeded /\ last.resp.demoScript # None)
    => Slot(last.requester).script = last.resp.demoScript

\* C35: a successful deleteDemoAccount is final under interleaving: when a
\* generateDemoScript or a resetPasswordForDemoUser that loaded the stored
\* state returns and the invocation that returned before it was a successful
\* deleteDemoAccount of the same requester (so the teardown cleared the store
\* after the load), the stored pair of the requester is empty afterwards.
C35_DeleteIsFinalUnderInterleaving ==
  [][(/\ flight # NoFlight
      /\ flight' = NoFlight
      /\ last.op = "deleteDemoAccount"
      /\ last.requester = flight.requester
      /\ last.outcome = "returned"
      /\ last.resp.success)
       => store'[storeOf(deploy, rev, flight.requester)] = EmptySlot]_vars

====
